---- MODULE Spec2Model ----
(***************************************************************************)
(* Johari Window - Education Resource Evaluator (React front end).         *)
(*                                                                         *)
(* The model follows the most complete revision of the application         *)
(* (threshold 4, "Uncertain" boundary case, edge coaching, saved           *)
(* resources persisted in localStorage).  The static catalogs are copied   *)
(* verbatim from the source; a character outside ASCII is written as the   *)
(* six characters \uXXXX (its code point), which keeps distinct texts      *)
(* distinct.                                                               *)
(***************************************************************************)
EXTENDS Integers, Sequences, FiniteSets, TLC

VARIABLES
  pairKey,        \* useState<PairKey>: the active tab
  scores,         \* useState: the six live ratings
  resources,      \* useState<SavedResource[]>: the saved collection
  resourceName,   \* useState: the pending name, as a sequence of characters
  localStorage,   \* the browser's key-value store (key -> string)
  hasRandomUUID,  \* environment: crypto.randomUUID is available
  clock,          \* environment: the last value read from Date.now()
  nSaves,         \* number of saves performed (index of the next random id)
  events,         \* number of user events handled so far
  call,           \* the last application of a pure function and its result
  session,        \* number of times the page has been loaded
  printSafe,      \* summaryRef.current.classList contains 'print-safe'
  exports,        \* the handleExport calls: where each one stands
  pdf             \* the locals of the PDF pagination of handleExport

vars ==
  <<pairKey, scores, resources, resourceName, localStorage,
    hasRandomUUID, clock, nSaves, events, call, session, printSafe,
    exports, pdf>>

appVars ==
  <<pairKey, scores, resources, resourceName, localStorage,
    hasRandomUUID, clock, nSaves, events, session>>

exportVars ==
  <<printSafe, exports, pdf>>

----------------------------------------------------------------------------
(* Bounds of the model. *)

\* User events (slider, tab, name input, save, delete, reload) in one run.
MaxEvents == 4

\* Calls of handleExport in one run.
MaxExports == 2

\* The scaled image height is 1 to MaxImgHeight whole points: up to three
\* pages of a landscape A4 document.
MaxImgHeight == 1200

\* Date.now() returns a value in 0..MaxTime.
MaxTime == 1

----------------------------------------------------------------------------
(* Static catalogs. *)

MID_AXIS_TEXT ==
  [Relevance |-> "Somewhat relevant: usable with minor adaptation, won\\u2019t reliably meet the full cohort.",
   Alignment |-> "Partially aligned: hits some outcomes/strategies, but needs mapping or adaptation.",
   Effectiveness |-> "Inconsistent outcomes: works for some learners/contexts; needs scaffolds or PD for reliability.",
   Impact |-> "Patchy ripple effects: some positive change, limited in scale or duration.",
   Sustainability |-> "Continues with active effort or specific people; not yet embedded or budget-proof.",
   Coherence |-> "Fits some initiatives, awkward with others; overlaps exist, integration incomplete."]

MID_EDGE_COACH ==
  [RAID |->
     [y3_x4plus |-> "Good on paper; strengthen classroom fit with quick adaptations, exemplars, and teacher feedback loops.",
      y4plus_x3 |-> "Strong local fit; close the gaps\\u2014map outcomes explicitly, add scope & sequence links.",
      y3_x3 |-> "Promising but under-specified\\u2014pilot, capture evidence, and co-design a minimal adaptation guide."],
   EFIM |->
     [y3_x4plus |-> "Catalytic but unreliable; standardise the core routine and monitor fidelity to stabilise outcomes.",
      y4plus_x3 |-> "Targets met, but little culture shift; widen adoption, share wins, and integrate into whole-school routines.",
      y3_x3 |-> "Try a contained pilot with clear measures and coaching; keep/dump based on evidence at term review."],
   SUCO |->
     [y3_x4plus |-> "Well-fitting but effortful; embed into timetable, roles, and budget to de-fragilise.",
      y4plus_x3 |-> "Durable but siloed; align language, timelines, and data cycles to reduce friction.",
      y3_x3 |-> "Rationalise overlaps, name owners, and set a \\u2018sunset unless embedded\\u2019 checkpoint."]]

SCALE ==
  [Relevance |->
     <<"Very Low \\u2013 Does not meet student or teacher needs.",
       "Low \\u2013 Generic; not tailored to our context.",
       "Moderate \\u2013 Somewhat relevant; usable with minor adaptation, but not a perfect fit for all cohorts.",
       "High \\u2013 Meets needs; adaptable and valued.",
       "Very High \\u2013 Highly relevant and transformative.">>,
   Alignment |->
     <<"Very Low \\u2013 No connection to curriculum/system.",
       "Low \\u2013 Loose links; significant gaps.",
       "Moderate \\u2013 Partial links to curriculum or priorities; usable but needs adaptation.",
       "High \\u2013 Well aligned to curriculum and strategy.",
       "Very High \\u2013 Strongly aligned across plans and goals.">>,
   Effectiveness |->
     <<"Very Low \\u2013 Fails to achieve intended outcomes.",
       "Low \\u2013 Limited outcomes; weak/anecdotal evidence.",
       "Moderate \\u2013 Achieves outcomes for some learners/contexts; not reliably across classes.",
       "High \\u2013 Consistently achieves most outcomes.",
       "Very High \\u2013 Strong results across diverse learners.">>,
   Impact |->
     <<"Very Low \\u2013 No wider/lasting change.",
       "Low \\u2013 Minimal, short-term impact.",
       "Moderate \\u2013 Some broader change, but limited in scale or duration.",
       "High \\u2013 Clear, positive change across cohorts.",
       "Very High \\u2013 Transformational, sustained school-wide change.">>,
   Sustainability |->
     <<"Very Low \\u2013 One-off/individual-dependent; fades quickly.",
       "Low \\u2013 Fragile; vulnerable to staff/budget changes.",
       "Moderate \\u2013 Continues with active effort/specific people; not yet embedded or budget-proof.",
       "High \\u2013 Embedded in routines, capability, resourcing.",
       "Very High \\u2013 Structures and funding ensure longevity.">>,
   Coherence |->
     <<"Very Low \\u2013 Conflicts; duplicates or confuses.",
       "Low \\u2013 Weak alignment; friction with initiatives.",
       "Moderate \\u2013 Fits some initiatives; overlaps/awkwardness remain without integration.",
       "High \\u2013 Well integrated; complements priorities.",
       "Very High \\u2013 Strong synergy across school/system.">>]

QUADRANTS ==
  [RAID_HH |-> [name |-> "Sweet Spot",
               desc |-> "Strategic choice: valuable locally and backed by curriculum/system."],
   RAID_HL |-> [name |-> "Hidden Gems",
               desc |-> "Strong local fit but not fully aligned; adapt/map or advocate."],
   RAID_LH |-> [name |-> "Box-Tickers",
               desc |-> "Easy to justify on paper; limited classroom value."],
   RAID_LL |-> [name |-> "Misfits",
               desc |-> "Neither useful nor aligned; consider phase-out."],
   EFIM_HH |-> [name |-> "Game-Changers",
               desc |-> "Deliver outcomes and reshape culture/outcomes more broadly."],
   EFIM_HL |-> [name |-> "Efficient Tools",
               desc |-> "Hit targets well but limited wider change; niche yet valuable."],
   EFIM_LH |-> [name |-> "Catalysts",
               desc |-> "Inconsistent outcomes but spark important long-term shifts."],
   EFIM_LL |-> [name |-> "Ineffectual",
               desc |-> "Neither achieves goals nor creates wider value."],
   SUCO_HH |-> [name |-> "Strategic Anchors",
               desc |-> "Long-lasting and well-integrated; backbone of strategy."],
   SUCO_HL |-> [name |-> "Stubborn Survivors",
               desc |-> "Enduring but isolated; risk inefficiency/silos."],
   SUCO_LH |-> [name |-> "Short-Lived Allies",
               desc |-> "Well-fitting but fragile; benefits may fade."],
   SUCO_LL |-> [name |-> "Dead Ends",
               desc |-> "Neither durable nor integrated; drains resources."]]

UNCERTAIN ==
  [name |-> "Uncertain",
   desc |-> "Evidence is inconclusive at present. Pilot or collect more data before committing; clarify success criteria, map curriculum links, and test in 1\\u20132 classes."]

PAIRS ==
  << [key |-> "RAID", title |-> "Relevance vs Alignment",
      x |-> "Alignment", y |-> "Relevance"],
     [key |-> "EFIM", title |-> "Effectiveness vs Impact",
      x |-> "Impact", y |-> "Effectiveness"],
     [key |-> "SUCO", title |-> "Sustainability vs Coherence",
      x |-> "Coherence", y |-> "Sustainability"] >>

PairKey ==
  {PAIRS[i].key : i \in DOMAIN PAIRS}

\* PAIRS.find((p) => p.key === key)
Pair(key) ==
  PAIRS[CHOOSE i \in DOMAIN PAIRS :
          /\ PAIRS[i].key = key
          /\ \A j \in DOMAIN PAIRS : PAIRS[j].key = key => i <= j]

\* The keys of the scores object, in insertion order.
Criteria ==
  <<"Relevance", "Alignment", "Effectiveness", "Impact", "Sustainability",
    "Coherence">>

Criterion ==
  {Criteria[i] : i \in DOMAIN Criteria}

\* The values a range input with min 1, max 5, step 1 can report.
Rating ==
  1..5

----------------------------------------------------------------------------
(* JavaScript values that are not strings or records of the catalogs. *)

\* null, where a string is expected
NULL ==
  "<null>"

\* undefined, where a catalog record is expected
UNDEFINED ==
  [undefined |-> TRUE]

\* NaN, where a number is expected
NaN ==
  [nan |-> TRUE]

----------------------------------------------------------------------------
(* Classification engine. *)

\* QUADRANTS[code]: a property read, undefined for a missing key
QuadrantLookup(code) ==
  IF code \in DOMAIN QUADRANTS THEN QUADRANTS[code] ELSE UNDEFINED

\* Variant: the X bit before the Y bit.
QuadrantCode_XFirst(pair, yHigh, xHigh) ==
  pair \o "_" \o (IF xHigh THEN "H" ELSE "L") \o (IF yHigh THEN "H" ELSE "L")

\* Variant: a separator the catalog keys do not use.
QuadrantCode_Dash(pair, yHigh, xHigh) ==
  pair \o "-" \o (IF yHigh THEN "H" ELSE "L") \o (IF xHigh THEN "H" ELSE "L")

\* `${pair}_${yHigh ? "H" : "L"}${xHigh ? "H" : "L"}`
QuadrantCode(pair, yHigh, xHigh) ==
  pair \o "_" \o (IF yHigh THEN "H" ELSE "L") \o (IF xHigh THEN "H" ELSE "L")

\* Variant: the earlier revisions with the threshold of the later one.
useQuadrantThreshold3_At4(pair, xVal, yVal) ==
  LET xHigh == xVal >= 4
      yHigh == yVal >= 4
  IN  QuadrantLookup(QuadrantCode(pair, yHigh, xHigh))

\* useQuadrant of the two earlier revisions: threshold 3, no boundary case,
\* over the same QUADRANTS catalog.
useQuadrantThreshold3(pair, xVal, yVal) ==
  LET xHigh == xVal >= 3
      yHigh == yVal >= 3
  IN  QuadrantLookup(QuadrantCode(pair, yHigh, xHigh))

\* Variant: the boundary case taken when either rating is 3.
useQuadrant_Either3(pair, xVal, yVal) ==
  IF xVal = 3 \/ yVal = 3
  THEN UNCERTAIN
  ELSE QuadrantLookup(QuadrantCode(pair, yVal >= 4, xVal >= 4))

\* Variant: the boundary case, then the threshold 3 of the first revision.
useQuadrant_High3(pair, xVal, yVal) ==
  IF xVal = 3 /\ yVal = 3
  THEN UNCERTAIN
  ELSE QuadrantLookup(QuadrantCode(pair, yVal >= 3, xVal >= 3))

useQuadrant(pair, xVal, yVal) ==
  IF xVal = 3 /\ yVal = 3
  THEN UNCERTAIN
  ELSE LET xHigh == xVal >= 4
           yHigh == yVal >= 4
       IN  QuadrantLookup(QuadrantCode(pair, yHigh, xHigh))

\* Variant: without the both-moderate rule.
getEdgeCoach_NoBoth3(pair, x, y, threshold) ==
  IF pair \notin DOMAIN MID_EDGE_COACH
  THEN NULL
  ELSE LET coach == MID_EDGE_COACH[pair]
           hi(n) == n >= threshold
       IN  IF y = 3 /\ hi(x) THEN coach.y3_x4plus
           ELSE IF hi(y) /\ x = 3 THEN coach.y4plus_x3
           ELSE NULL

\* Variant: the both-moderate rule tried first.
getEdgeCoach_Both3First(pair, x, y, threshold) ==
  IF pair \notin DOMAIN MID_EDGE_COACH
  THEN NULL
  ELSE LET coach == MID_EDGE_COACH[pair]
           hi(n) == n >= threshold
       IN  IF y = 3 /\ x = 3 THEN coach.y3_x3
           ELSE IF y = 3 /\ hi(x) THEN coach.y3_x4plus
           ELSE IF hi(y) /\ x = 3 THEN coach.y4plus_x3
           ELSE NULL

\* Variant: the two ratings taken in the other order.
getEdgeCoach_Swapped(pair, x, y, threshold) ==
  IF pair \notin DOMAIN MID_EDGE_COACH
  THEN NULL
  ELSE LET coach == MID_EDGE_COACH[pair]
           hi(n) == n >= threshold
       IN  IF x = 3 /\ hi(y) THEN coach.y3_x4plus
           ELSE IF hi(x) /\ y = 3 THEN coach.y4plus_x3
           ELSE IF y = 3 /\ x = 3 THEN coach.y3_x3
           ELSE NULL

getEdgeCoach(pair, x, y, threshold) ==
  IF pair \notin DOMAIN MID_EDGE_COACH
  THEN NULL
  ELSE LET coach == MID_EDGE_COACH[pair]
           hi(n) == n >= threshold
       IN  IF y = 3 /\ hi(x) THEN coach.y3_x4plus
           ELSE IF hi(y) /\ x = 3 THEN coach.y4plus_x3
           ELSE IF y = 3 /\ x = 3 THEN coach.y3_x3
           ELSE NULL

\* Variant: the tier text for every rating, as in the earlier revisions.
descriptor_Base(label, value) ==
  SCALE[label][value]

\* SliderRow: const descriptor = mid || base
descriptor(label, value) ==
  LET base == SCALE[label][value]
      mid  == IF value = 3 THEN MID_AXIS_TEXT[label] ELSE NULL
  IN  IF mid # NULL /\ mid # "" THEN mid ELSE base

\* Variant: both ratings must be 3.
gateActive_Both(x, y) ==
  x = 3 /\ y = 3

\* Grid: const gateActive = x === 3 || y === 3
gateActive(x, y) ==
  x = 3 \/ y = 3

----------------------------------------------------------------------------
(* Strings. *)

Digits ==
  <<"0", "1", "2", "3", "4", "5", "6", "7", "8", "9">>

\* String(n) and `${n}` for a non-negative integer: its decimal digits
RECURSIVE String(_)
String(n) ==
  IF n < 10 THEN Digits[n + 1]
  ELSE String(n \div 10) \o Digits[(n % 10) + 1]

\* Characters String.prototype.trim removes (those the model can type).
WhiteSpace ==
  {" ", "\t", "\n", "\r"}

RECURSIVE TrimStart(_)
TrimStart(cs) ==
  IF cs # <<>> /\ Head(cs) \in WhiteSpace THEN TrimStart(Tail(cs)) ELSE cs

RECURSIVE TrimEnd(_)
TrimEnd(cs) ==
  IF cs # <<>> /\ cs[Len(cs)] \in WhiteSpace
  THEN TrimEnd(SubSeq(cs, 1, Len(cs) - 1))
  ELSE cs

\* resourceName.trim(), on the characters of the string
trim(cs) ==
  TrimEnd(TrimStart(cs))

\* The string made of the characters cs.
RECURSIVE Text(_)
Text(cs) ==
  IF cs = <<>> THEN "" ELSE Head(cs) \o Text(Tail(cs))

\* The characters of the name input of the model; none needs a JSON escape.
NameChars ==
  {" ", "a"}

\* The values e.target.value of the name input takes in the model: empty,
\* whitespace only, plain, with surrounding and with inner whitespace.
Names ==
  {<<>>, <<" ">>, <<"a">>, <<" ", "a", " ">>, <<"a", " ", "a">>}

----------------------------------------------------------------------------
(* Resource collection store. *)

StorageKey ==
  "resourcesV1"

\* crypto.randomUUID(): the k-th call returns a version-4 UUID that no
\* earlier call returned.
randomUUID(k) ==
  "00000000-0000-4000-8000-00000000000" \o String(k)

\* JSON.stringify of a string without characters that need an escape
JSONstring(str) ==
  "\"" \o str \o "\""

\* A JavaScript object keeps its keys in insertion order.  An object is a
\* function on its keys; when its keys are not in the order in which the
\* application writes them, the function has their order under KeysField.
KeysField ==
  "<keys>"

\* The key order of the objects the application builds: the SavedResource
\* literal of saveCurrentResource and the scores literal of App.
DefaultKeys(keys) ==
  IF keys = {"id", "name", "scores"} THEN <<"id", "name", "scores">>
  ELSE IF keys = Criterion THEN Criteria
  ELSE <<>>

\* Object.keys(object)
ObjectKeys(object) ==
  IF KeysField \in DOMAIN object THEN object[KeysField]
  ELSE DefaultKeys(DOMAIN object)

\* JSON.stringify of the members of a scores object, from the i-th key on
RECURSIVE JSONmembers(_, _)
JSONmembers(sc, i) ==
  IF i > Len(ObjectKeys(sc)) THEN ""
  ELSE (IF i > 1 THEN "," ELSE "")
       \o JSONstring(ObjectKeys(sc)[i]) \o ":"
       \o String(sc[ObjectKeys(sc)[i]])
       \o JSONmembers(sc, i + 1)

\* JSON.stringify of the members of a SavedResource, from the i-th key on:
\* scores is an object of numbers, id and name are strings.
RECURSIVE JSONfields(_, _)
JSONfields(r, i) ==
  IF i > Len(ObjectKeys(r)) THEN ""
  ELSE LET key == ObjectKeys(r)[i]
       IN  (IF i > 1 THEN "," ELSE "")
           \o JSONstring(key) \o ":"
           \o (IF key = "scores"
               THEN "{" \o JSONmembers(r[key], 1) \o "}"
               ELSE JSONstring(r[key]))
           \o JSONfields(r, i + 1)

\* Variant: the name is left out of the stored record.
JSONresource_NoName(r) ==
  "{\"id\":" \o JSONstring(r.id)
  \o ",\"scores\":{" \o JSONmembers(r.scores, 1) \o "}}"

\* JSON.stringify of one SavedResource: keys in insertion order
JSONresource(r) ==
  "{" \o JSONfields(r, 1) \o "}"

RECURSIVE JSONelements(_)
JSONelements(rs) ==
  IF rs = <<>> THEN ""
  ELSE JSONresource(Head(rs))
       \o (IF Len(rs) > 1 THEN "," ELSE "") \o JSONelements(Tail(rs))

\* JSON.stringify(next)
JSONstringify(rs) ==
  "[" \o JSONelements(rs) \o "]"

\* localStorage.setItem(key, value)
setItem(store, key, value) ==
  [k \in DOMAIN store \cup {key} |-> IF k = key THEN value ELSE store[k]]

\* Variant: the number does not follow the length of the list.
DefaultName_First(rs) ==
  "Resource " \o String(1)

\* Variant: the count before the save.
DefaultName_Count(rs) ==
  "Resource " \o String(Len(rs))

\* `Resource ${resources.length + 1}`
DefaultName(rs) ==
  "Resource " \o String(Len(rs) + 1)

\* resourceName.trim() || `Resource ${resources.length + 1}`
NewName(pending, rs) ==
  IF Text(trim(pending)) # "" THEN Text(trim(pending)) ELSE DefaultName(rs)

\* (crypto as any).randomUUID?.() || String(Date.now())
NewId(available, k, now) ==
  IF available /\ randomUUID(k) # "" THEN randomUUID(k) ELSE String(now)

\* const next = [...resources, r]
AppendResource(rs, r) ==
  Append(rs, r)

\* resources.filter(r => r.id !== id)
RemoveById(rs, id) ==
  SelectSeq(rs, LAMBDA r : r.id # id)

----------------------------------------------------------------------------
(* JSON.parse, on the characters of the text.  A JSON value is kept as a    *)
(* tagged tree.  Numbers are the integers (a fraction or an exponent is not  *)
(* read) and the string escapes are \" \\ \/ \n \r \t \f (not \b, \u), which   *)
(* covers every text the store of the model can hold.                       *)

JSONWhiteSpace ==
  {" ", "\t", "\n", "\r"}

DigitChars ==
  {Digits[i] : i \in DOMAIN Digits}

DigitValue(c) ==
  (CHOOSE i \in DOMAIN Digits : Digits[i] = c) - 1

\* The character an escape \c stands for.
JSONEscapes ==
  [f |-> "\f", n |-> "\n", r |-> "\r", t |-> "\t"]

SyntaxError ==
  [ok |-> FALSE]

Parsed(value, rest) ==
  [ok |-> TRUE, value |-> value, rest |-> rest]

StartsWith(s, prefix) ==
  Len(s) >= Len(prefix) /\ SubSeq(s, 1, Len(prefix)) = prefix

DropChars(s, n) ==
  SubSeq(s, n + 1, Len(s))

RECURSIVE SkipWS(_)
SkipWS(s) ==
  IF s # "" /\ Head(s) \in JSONWhiteSpace THEN SkipWS(Tail(s)) ELSE s

\* The characters of a string literal after its opening quote.
RECURSIVE ParseChars(_, _)
ParseChars(s, acc) ==
  IF s = "" THEN SyntaxError
  ELSE IF Head(s) = "\"" THEN Parsed([t |-> "string", s |-> acc], Tail(s))
  ELSE IF Head(s) = "\\"
       THEN IF Len(s) < 2 THEN SyntaxError
            ELSE LET e == Head(Tail(s))
                 IN  IF e \in {"\"", "\\", "/"}
                     THEN ParseChars(DropChars(s, 2), acc \o e)
                     ELSE IF e \in DOMAIN JSONEscapes
                     THEN ParseChars(DropChars(s, 2), acc \o JSONEscapes[e])
                     ELSE SyntaxError
  ELSE IF Head(s) \in {"\t", "\n", "\r"} THEN SyntaxError
  ELSE ParseChars(Tail(s), acc \o Head(s))

RECURSIVE ParseDigits(_, _)
ParseDigits(s, acc) ==
  IF s # "" /\ Head(s) \in DigitChars
  THEN ParseDigits(Tail(s), 10 * acc + DigitValue(Head(s)))
  ELSE Parsed(acc, s)

\* -? (0 | [1-9][0-9]*)
ParseNumber(s) ==
  LET neg == Head(s) = "-"
      body == IF neg THEN Tail(s) ELSE s
  IN  IF body = "" \/ Head(body) \notin DigitChars THEN SyntaxError
      ELSE LET d == IF Head(body) = "0" THEN Parsed(0, Tail(body))
                    ELSE ParseDigits(body, 0)
           IN  IF d.rest # "" /\ Head(d.rest) \in {".", "e", "E"}
               THEN SyntaxError
               ELSE Parsed([t |-> "number",
                            n |-> IF neg THEN 0 - d.value ELSE d.value],
                           d.rest)

RECURSIVE ParseValue(_)
RECURSIVE ParseElements(_, _)
RECURSIVE ParseMembers(_, _, _)

\* The elements of an array after "[" or after a ",".
ParseElements(s, acc) ==
  LET v == ParseValue(s)
  IN  IF ~v.ok THEN SyntaxError
      ELSE LET rest == SkipWS(v.rest)
               items == Append(acc, v.value)
           IN  IF rest = "" THEN SyntaxError
               ELSE IF Head(rest) = "," THEN ParseElements(Tail(rest), items)
               ELSE IF Head(rest) = "]"
               THEN Parsed([t |-> "array", items |-> items], Tail(rest))
               ELSE SyntaxError

\* The members of an object after "{" or after a ",".
ParseMembers(s, keys, vals) ==
  LET s1 == SkipWS(s)
  IN  IF s1 = "" \/ Head(s1) # "\"" THEN SyntaxError
      ELSE LET k == ParseChars(Tail(s1), "")
           IN  IF ~k.ok THEN SyntaxError
               ELSE LET s2 == SkipWS(k.rest)
                    IN  IF s2 = "" \/ Head(s2) # ":" THEN SyntaxError
                        ELSE LET v == ParseValue(Tail(s2))
                             IN  IF ~v.ok THEN SyntaxError
                                 ELSE LET rest == SkipWS(v.rest)
                                          ks == Append(keys, k.value.s)
                                          vs == Append(vals, v.value)
                                      IN  IF rest = "" THEN SyntaxError
                                          ELSE IF Head(rest) = ","
                                          THEN ParseMembers(Tail(rest), ks, vs)
                                          ELSE IF Head(rest) = "}"
                                          THEN Parsed([t |-> "object",
                                                       keys |-> ks,
                                                       vals |-> vs],
                                                      Tail(rest))
                                          ELSE SyntaxError

ParseValue(s) ==
  LET s1 == SkipWS(s)
  IN  IF s1 = "" THEN SyntaxError
      ELSE IF Head(s1) = "["
      THEN IF SkipWS(Tail(s1)) # "" /\ Head(SkipWS(Tail(s1))) = "]"
           THEN Parsed([t |-> "array", items |-> <<>>],
                       Tail(SkipWS(Tail(s1))))
           ELSE ParseElements(Tail(s1), <<>>)
      ELSE IF Head(s1) = "{"
      THEN IF SkipWS(Tail(s1)) # "" /\ Head(SkipWS(Tail(s1))) = "}"
           THEN Parsed([t |-> "object", keys |-> <<>>, vals |-> <<>>],
                       Tail(SkipWS(Tail(s1))))
           ELSE ParseMembers(Tail(s1), <<>>, <<>>)
      ELSE IF Head(s1) = "\"" THEN ParseChars(Tail(s1), "")
      ELSE IF Head(s1) = "-" \/ Head(s1) \in DigitChars THEN ParseNumber(s1)
      ELSE IF StartsWith(s1, "null")
      THEN Parsed([t |-> "null"], DropChars(s1, 4))
      ELSE IF StartsWith(s1, "true")
      THEN Parsed([t |-> "true"], DropChars(s1, 4))
      ELSE IF StartsWith(s1, "false")
      THEN Parsed([t |-> "false"], DropChars(s1, 5))
      ELSE SyntaxError

\* JSON.parse(text): the value, or a SyntaxError
JSONparse(text) ==
  LET v == ParseValue(text)
  IN  IF v.ok /\ SkipWS(v.rest) = "" THEN [ok |-> TRUE, value |-> v.value]
      ELSE SyntaxError

\* The keys of a JSON object in the order of their first occurrence.
RECURSIVE DistinctKeys(_, _, _)
DistinctKeys(keys, i, acc) ==
  IF i > Len(keys) THEN acc
  ELSE DistinctKeys(keys, i + 1,
                    IF \E j \in DOMAIN acc : acc[j] = keys[i] THEN acc
                    ELSE Append(acc, keys[i]))

\* The JavaScript value of a JSON tree: an array as a sequence, an object as
\* a function of its keys (a repeated key keeps its first place and its
\* last value) with its key order.
RECURSIVE JSValue(_)
JSValue(v) ==
  IF v.t = "array" THEN [i \in DOMAIN v.items |-> JSValue(v.items[i])]
  ELSE IF v.t = "object"
  THEN LET keys == {v.keys[i] : i \in DOMAIN v.keys}
           order == DistinctKeys(v.keys, 1, <<>>)
           last(k) == CHOOSE i \in DOMAIN v.keys :
                        /\ v.keys[i] = k
                        /\ \A j \in DOMAIN v.keys : v.keys[j] = k => j <= i
       IN  IF order = DefaultKeys(keys)
           THEN [k \in keys |-> JSValue(v.vals[last(k)])]
           ELSE [k \in keys \cup {KeysField} |->
                   IF k = KeysField THEN order
                   ELSE JSValue(v.vals[last(k)])]
  ELSE IF v.t = "string" THEN v.s
  ELSE IF v.t = "number" THEN v.n
  ELSE v


\* localStorage.getItem(key): the string, or null
getItem(store, key) ==
  IF key \in DOMAIN store THEN store[key] ELSE NULL

\* Variant: without the try/catch a SyntaxError reaches the caller.
loadResources_NoCatch(store) ==
  LET item == getItem(store, StorageKey)
      text == IF item = NULL \/ item = "" THEN "[]" ELSE item
      parsed == JSONparse(text)
  IN  IF parsed.ok THEN JSValue(parsed.value) ELSE [thrown |-> "SyntaxError"]

\* The initializer of the resources state:
\* try { return JSON.parse(localStorage.getItem("resourcesV1") || "[]") }
\* catch { return [] }
loadResources(store) ==
  LET item == getItem(store, StorageKey)
      text == IF item = NULL \/ item = "" THEN "[]" ELSE item
      parsed == JSONparse(text)
  IN  IF parsed.ok THEN JSValue(parsed.value) ELSE <<>>

----------------------------------------------------------------------------
(* Rendering: what App shows for the current state. *)

\* const quad = useQuadrant(pair.key, xVal, yVal), for the active pair
quad ==
  LET pair == Pair(pairKey)
  IN  useQuadrant(pair.key, scores[pair.x], scores[pair.y])

\* Variant: the quadrant description always, as in the earlier revisions.
Coalesce_Desc(coach, desc) ==
  desc

\* coach ?? q.desc
Coalesce(coach, desc) ==
  IF coach # NULL THEN coach ELSE desc

\* The first card of TabsContent p: name, Evidence Gate badge, text.
DetailPanel(key) ==
  LET p == Pair(key)
  IN  [name |-> quad.name,
       gate |-> (scores[p.y] = 3 \/ scores[p.x] = 3),
       ring |-> gateActive(scores[p.x], scores[p.y]),
       text |-> Coalesce(getEdgeCoach(p.key, scores[p.x], scores[p.y], 4),
                         quad.desc)]

\* Tabs shows the TabsContent whose value is the active tab.
Visible(key) ==
  key = pairKey

\* The card of pair p in the Overall Assessment Snapshot.
SummaryCard(key) ==
  LET p == Pair(key)
      q == useQuadrant(p.key, scores[p.x], scores[p.y])
      coach == getEdgeCoach(p.key, scores[p.x], scores[p.y], 4)
  IN  [name |-> q.name,
       gate |-> (scores[p.x] = 3 \/ scores[p.y] = 3),
       ring |-> gateActive(scores[p.x], scores[p.y]),
       text |-> Coalesce(coach, q.desc)]

\* Grid: const padding = 24
padding ==
  24

\* Grid: const size = compact ? 220 : 300
size(compact) ==
  IF compact THEN 220 ELSE 300

plotW(compact) ==
  size(compact) - padding * 2

plotH(compact) ==
  size(compact) - padding * 2

\* Variant: the vertical axis is not inverted.
toPos_Upright(compact, sx, sy) ==
  [cx |-> padding + ((sx - 1) * plotW(compact)) \div 4,
   cy |-> padding + ((sy - 1) * plotH(compact)) \div 4]

\* Grid.toPos.  (sx - 1) / 4 is a multiple of a quarter and plotW, plotH
\* (252 or 172) are multiples of 4, so the floating-point products are exact
\* integers; 1 - (sy - 1) / 4 is (4 - (sy - 1)) quarters.
toPos(compact, sx, sy) ==
  [cx |-> padding + ((sx - 1) * plotW(compact)) \div 4,
   cy |-> padding + ((4 - (sy - 1)) * plotH(compact)) \div 4]

\* The saved points handed to the Grid of pair key.
pairPoints(key) ==
  LET p == Pair(key)
  IN  [i \in DOMAIN resources |->
         [x |-> resources[i].scores[p.x],
          y |-> resources[i].scores[p.y],
          title |-> resources[i].name]]

\* The circles the Grid of pair key draws: the live point and one circle
\* per saved point.
Grid(key, compact) ==
  LET p == Pair(key)
      points == pairPoints(key)
  IN  [live |-> toPos(compact, scores[p.x], scores[p.y]),
       points |-> [i \in DOMAIN points |->
                     toPos(compact, points[i].x, points[i].y)]]

----------------------------------------------------------------------------
(* The application: state after the first render, and its event handlers. *)

\* The handleExport calls of one run.
Export ==
  1..MaxExports

IdlePdf ==
  [pc |-> "idle"]

\* No export has been started.
InitExport ==
  /\ printSafe = FALSE
  /\ exports = [e \in Export |-> [pc |-> "idle"]]
  /\ pdf = IdlePdf

\* The useState initial values of App, for the store the page finds.
Mounted ==
  /\ pairKey = "RAID"
  /\ scores = [c \in Criterion |-> 3]
  /\ resources = loadResources(localStorage)
  /\ resourceName = <<>>

\* The environment when the page is first loaded.
InitEnv ==
  /\ hasRandomUUID \in BOOLEAN
  /\ clock = 0
  /\ nSaves = 0
  /\ events = 0
  /\ session = 1

\* First load with nothing stored.
InitApp ==
  /\ localStorage = [k \in {} |-> ""]
  /\ Mounted
  /\ InitEnv

Init ==
  /\ InitApp
  /\ call = [fn |-> "none"]
  /\ InitExport

\* Tabs onValueChange={(v) => setPairKey(v)}
setPairKey(v) ==
  /\ events < MaxEvents
  /\ v # pairKey
  /\ pairKey' = v
  /\ events' = events + 1
  /\ UNCHANGED <<scores, resources, resourceName, localStorage,
                 hasRandomUUID, clock, nSaves, call, session,
                 exportVars>>

\* Variant: the scores object is changed in place and the saved entries
\* share it.
setScores_InPlace(label, n) ==
  /\ events < MaxEvents
  /\ label \in {Pair(pairKey).x, Pair(pairKey).y}
  /\ n # scores[label]
  /\ scores' = [scores EXCEPT ![label] = n]
  /\ resources' = [i \in DOMAIN resources |->
                     [resources[i] EXCEPT !.scores[label] = n]]
  /\ events' = events + 1
  /\ UNCHANGED <<pairKey, resourceName, localStorage,
                 hasRandomUUID, clock, nSaves, call, session,
                 exportVars>>

\* SliderRow setValue={(n) => setScores((s) => ({ ...s, [label]: n }))},
\* for the two sliders of the visible tab
setScores(label, n) ==
  /\ events < MaxEvents
  /\ label \in {Pair(pairKey).x, Pair(pairKey).y}
  /\ n # scores[label]
  /\ scores' = [scores EXCEPT ![label] = n]
  /\ events' = events + 1
  /\ UNCHANGED <<pairKey, resources, resourceName, localStorage,
                 hasRandomUUID, clock, nSaves, call, session,
                 exportVars>>

\* name input onChange={(e) => setResourceName(e.target.value)}
setResourceName(value) ==
  /\ events < MaxEvents
  /\ value # resourceName
  /\ resourceName' = value
  /\ events' = events + 1
  /\ UNCHANGED <<pairKey, scores, resources, localStorage,
                 hasRandomUUID, clock, nSaves, call, session,
                 exportVars>>

\* Variant: the list of the last render is written, not the new one.
saveAll_Stale(next) ==
  /\ resources' = next
  /\ localStorage' = setItem(localStorage, StorageKey,
                             JSONstringify(resources))

\* setResources(next); localStorage.setItem("resourcesV1", JSON.stringify(next))
saveAll(next) ==
  /\ resources' = next
  /\ localStorage' = setItem(localStorage, StorageKey, JSONstringify(next))

\* Save Resource button.  Date.now() is read only when randomUUID is
\* missing, and never runs backwards.
saveCurrentResource ==
  /\ events < MaxEvents
  /\ \E now \in clock..MaxTime :
       /\ clock' = IF hasRandomUUID THEN clock ELSE now
       /\ LET name == NewName(resourceName, resources)
              r == [id |-> NewId(hasRandomUUID, nSaves + 1, now),
                    name |-> name,
                    scores |-> scores]
              next == AppendResource(resources, r)
          IN  saveAll(next)
  /\ resourceName' = <<>>
  /\ nSaves' = nSaves + 1
  /\ events' = events + 1
  /\ UNCHANGED <<pairKey, scores, hasRandomUUID, call, session,
                 exportVars>>

\* Delete button of a listed resource
deleteResource(id) ==
  /\ events < MaxEvents
  /\ LET next == RemoveById(resources, id)
     IN  saveAll(next)
  /\ events' = events + 1
  /\ UNCHANGED <<pairKey, scores, resourceName, hasRandomUUID, clock,
                 nSaves, call, session,
                 exportVars>>

\* The page is loaded again: every useState starts from its initial value
\* and resources from what localStorage holds.
reload ==
  /\ events < MaxEvents
  /\ pairKey' = "RAID"
  /\ scores' = [c \in Criterion |-> 3]
  /\ resources' = loadResources(localStorage)
  /\ resourceName' = <<>>
  /\ session' = session + 1
  /\ events' = events + 1
  /\ printSafe' = FALSE
  /\ exports' = [e \in Export |-> [pc |-> "idle"]]
  /\ pdf' = IdlePdf
  /\ UNCHANGED <<localStorage, hasRandomUUID, clock, nSaves, call>>

\* Variant: a range input without min, offering 0 as well.
SliderValues_NoMin ==
  {"0", "1", "2", "3", "4", "5"}

\* The strings e.target.value of a range input with min 1, max 5, step 1.
SliderValues ==
  {"1", "2", "3", "4", "5"}

\* parseInt(e.target.value): the leading decimal digits, NaN without any
parseInt(str) ==
  LET t == SkipWS(str)
  IN  IF t # "" /\ Head(t) \in DigitChars THEN ParseDigits(t, 0).value
      ELSE NaN

Next ==
  \/ \E v \in PairKey : setPairKey(v)
  \/ \E label \in Criterion, v \in SliderValues :
       setScores(label, parseInt(v))
  \/ \E value \in Names : setResourceName(value)
  \/ saveCurrentResource
  \/ \E i \in DOMAIN resources : deleteResource(resources[i].id)
  \/ reload

Spec ==
  Init /\ [][Next]_vars

\* What localStorage may hold when the page is first loaded: nothing, an
\* empty string, texts that are not JSON, and collections an earlier session
\* stored.
InitialStores ==
  {[k \in {} |-> ""]}
  \cup {[k \in {StorageKey} |-> text] :
          text \in {"",
                    "not json",
                    "[{\"id\":\"7\",\"na",
                    "[{\"id\":\"7\",\"name\":\"old\",\"scores\":{}},]",
                    "[]",
                    JSONstringify(<<[id |-> "7", name |-> "old",
                                     scores |-> [c \in Criterion |->
                                       IF c = "Impact" THEN 5 ELSE 2]]>>),
                    " [ {\"scores\": {\"Relevance\":1, \"Alignment\":2, \"Effectiveness\":3, \"Impact\":4, \"Sustainability\":5, \"Coherence\":1},\n \"name\": \"old\", \"id\": \"8\"} ] "}}

InitLoad ==
  /\ localStorage \in InitialStores
  /\ Mounted
  /\ InitEnv
  /\ call = [fn |-> "none"]
  /\ InitExport

NextLoad ==
  \/ \E value \in Names : setResourceName(value)
  \/ saveCurrentResource
  \/ \E i \in DOMAIN resources : deleteResource(resources[i].id)
  \/ reload

SpecLoad ==
  InitLoad /\ [][NextLoad]_vars

\* The JSON tree of what the initializer of resources returns: resources is
\* its JavaScript value.
LoadedTree(store) ==
  LET item == getItem(store, StorageKey)
      text == IF item = NULL \/ item = "" THEN "[]" ELSE item
      parsed == JSONparse(text)
  IN  IF parsed.ok THEN parsed.value ELSE [t |-> "array", items |-> <<>>]

HasKey(object, key) ==
  \E i \in DOMAIN object.keys : object.keys[i] = key

\* object[key], for a key the object has (a repeated key keeps its last
\* value)
Member(object, key) ==
  object.vals[CHOOSE i \in DOMAIN object.keys :
                /\ object.keys[i] = key
                /\ \A j \in DOMAIN object.keys :
                     object.keys[j] = key => j <= i]

\* The first render goes through: resources.map needs an array, and
\* r.scores[p.x] an r whose scores is neither undefined nor null.  A
\* TypeError in render unmounts the application, and no handler runs.
Renders(tree) ==
  /\ tree.t = "array"
  /\ \A i \in DOMAIN tree.items :
       /\ tree.items[i].t = "object"
       /\ HasKey(tree.items[i], "scores")
       /\ Member(tree.items[i], "scores").t # "null"

\* Stored texts that are JSON but no collection of SavedResource, or one
\* with a rating outside the scale.
ShapeStores ==
  {[k \in {StorageKey} |-> text] :
     text \in {"null",
               "7",
               "{\"id\":\"7\"}",
               "[1]",
               "[null]",
               "[{\"id\":\"7\",\"name\":\"old\"}]",
               JSONstringify(<<[id |-> "7", name |-> "old",
                                scores |-> [c \in Criterion |->
                                  IF c = "Impact" THEN 9 ELSE 2]]>>)}}

InitShapes ==
  /\ localStorage \in InitialStores \cup ShapeStores
  /\ Mounted
  /\ InitEnv
  /\ call = [fn |-> "none"]
  /\ InitExport

\* The handlers of a page that rendered, and the reload of any page.
NextShapes ==
  \/ Renders(LoadedTree(localStorage))
       /\ \E value \in Names : setResourceName(value)
  \/ Renders(LoadedTree(localStorage)) /\ saveCurrentResource
  \/ Renders(LoadedTree(localStorage))
       /\ \E i \in DOMAIN resources : deleteResource(resources[i].id)
  \/ reload

SpecShapes ==
  InitShapes /\ [][NextShapes]_vars

\* saveAll when localStorage.setItem raises (quota exceeded, storage
\* disabled): setResources(next) has been called before, the state update
\* stays queued and is rendered; the store keeps what it held.
saveAllRaises(next) ==
  /\ resources' = next
  /\ localStorage' = localStorage

\* Save Resource button, the store write raising: the exception leaves
\* saveCurrentResource before setResourceName("").
saveCurrentResourceRaises ==
  /\ events < MaxEvents
  /\ \E now \in clock..MaxTime :
       /\ clock' = IF hasRandomUUID THEN clock ELSE now
       /\ LET name == NewName(resourceName, resources)
              r == [id |-> NewId(hasRandomUUID, nSaves + 1, now),
                    name |-> name,
                    scores |-> scores]
              next == AppendResource(resources, r)
          IN  saveAllRaises(next)
  /\ nSaves' = nSaves + 1
  /\ events' = events + 1
  /\ UNCHANGED <<pairKey, scores, resourceName, hasRandomUUID, call,
                 session, exportVars>>

\* Delete button, the store write raising.
deleteResourceRaises(id) ==
  /\ events < MaxEvents
  /\ LET next == RemoveById(resources, id)
     IN  saveAllRaises(next)
  /\ events' = events + 1
  /\ UNCHANGED <<pairKey, scores, resourceName, hasRandomUUID, clock,
                 nSaves, call, session, exportVars>>

\* The application with a store whose writes may raise.
NextRaises ==
  \/ \E label \in Criterion, v \in SliderValues :
       setScores(label, parseInt(v))
  \/ \E value \in Names : setResourceName(value)
  \/ saveCurrentResource
  \/ saveCurrentResourceRaises
  \/ \E i \in DOMAIN resources : deleteResource(resources[i].id)
  \/ \E i \in DOMAIN resources : deleteResourceRaises(resources[i].id)
  \/ reload

SpecRaises ==
  Init /\ [][NextRaises]_vars

----------------------------------------------------------------------------
(* handleExport: an async function.  Each call runs up to its first await,  *)
(* from the animation frame to the html2canvas call, and from the settled   *)
(* html2canvas promise to its end; other calls and events interleave at     *)
(* the awaits.                                                              *)

\* Every length of the PDF (page size, margins, image height, offsets y) is
\* an integer number of hundredths of a point, the precision of the page size
\* of jsPDF: 20 pt is 2000 and -535.28 pt is -53528.  Points(n) is n points.
Points(n) ==
  n * 100

\* pdf.internal.pageSize.getHeight() of new jsPDF("landscape", "pt", "a4"):
\* 595.28 pt, in hundredths of a point.
pageHeight ==
  59528

\* The while loop of the PDF branch: pages holds the vertical offset y of
\* the image on each page added so far.
RECURSIVE PaginateLoop(_, _, _)
PaginateLoop(imgHeight, remaining, pages) ==
  IF remaining > pageHeight - Points(40)
  THEN LET y == Points(20) - (imgHeight - remaining)
       IN  PaginateLoop(imgHeight, remaining - (pageHeight - Points(40)),
                        Append(pages, y))
  ELSE pages

\* let remaining = imgHeight; let y = 20; pdf.addImage(..., 20, y, ...);
\* while (...) { ... }: the offsets of the image on the pages of the document.
Paginate(imgHeight) ==
  PaginateLoop(imgHeight, imgHeight, <<Points(20)>>)

ExportType ==
  {"png", "pdf"}

\* handleExport(type) up to its first await: the marker is added and the
\* call waits for the next animation frame.
handleExport(e, type) ==
  /\ exports[e].pc = "idle"
  /\ printSafe' = TRUE
  /\ exports' = [exports EXCEPT ![e] = [pc |-> "frame", type |-> type]]
  /\ UNCHANGED <<pdf, appVars, call>>

\* The animation frame fires: the try block is entered and html2canvas is
\* called.
animationFrame(e) ==
  /\ exports[e].pc = "frame"
  /\ exports' = [exports EXCEPT ![e].pc = "html2canvas"]
  /\ UNCHANGED <<printSafe, pdf, appVars, call>>

\* Variant: try without finally, the marker is removed on success only.
canvasRejected_NoFinally(e) ==
  /\ exports[e].pc = "html2canvas"
  /\ exports' = [exports EXCEPT ![e].pc = "failed"]
  /\ UNCHANGED <<printSafe, pdf, appVars, call>>

\* html2canvas rejects: the finally block removes the marker and the
\* promise of handleExport is rejected.
canvasRejected(e) ==
  /\ exports[e].pc = "html2canvas"
  /\ printSafe' = FALSE
  /\ exports' = [exports EXCEPT ![e].pc = "failed"]
  /\ UNCHANGED <<pdf, appVars, call>>

\* html2canvas resolves and toDataURL or jsPDF throws: the finally block
\* removes the marker, nothing is downloaded.
exportThrows(e) ==
  /\ exports[e].pc = "html2canvas"
  /\ printSafe' = FALSE
  /\ exports' = [exports EXCEPT ![e].pc = "threw"]
  /\ UNCHANGED <<pdf, appVars, call>>

\* html2canvas resolves with a canvas whose scaled height is imgHeight: the
\* PNG is downloaded, or the PDF is paginated and saved; the finally block
\* removes the marker.
canvasResolved(e, imgHeight) ==
  /\ exports[e].pc = "html2canvas"
  /\ pdf' = IF exports[e].type = "pdf"
            THEN [pc |-> "saved", imgHeight |-> imgHeight,
                  pages |-> Paginate(imgHeight)]
            ELSE pdf
  /\ printSafe' = FALSE
  /\ exports' = [exports EXCEPT ![e].pc = "done"]
  /\ UNCHANGED <<appVars, call>>

\* Exports of either type, overlapping or not, of an image that fits one
\* page and of the tallest one.
NextExport ==
  \/ \E e \in Export, type \in ExportType : handleExport(e, type)
  \/ \E e \in Export : animationFrame(e)
  \/ \E e \in Export : canvasRejected(e)
  \/ \E e \in Export : exportThrows(e)
  \/ \E e \in Export, imgHeight \in {1, MaxImgHeight} :
       canvasResolved(e, Points(imgHeight))

SpecExport ==
  Init /\ [][NextExport]_vars

\* One PDF export, for every image height.
NextPdf ==
  \/ handleExport(1, "pdf")
  \/ animationFrame(1)
  \/ \E imgHeight \in 1..MaxImgHeight :
       canvasResolved(1, Points(imgHeight))

SpecPdf ==
  Init /\ [][NextPdf]_vars

----------------------------------------------------------------------------
(* The pure functions, applied to every input of their domain. *)

Threshold ==
  1..5

callUseQuadrant(pair, xVal, yVal) ==
  /\ call' = [fn |-> "useQuadrant", pair |-> pair, x |-> xVal, y |-> yVal,
              result |-> useQuadrant(pair, xVal, yVal)]
  /\ UNCHANGED <<appVars, exportVars>>

callGetEdgeCoach(pair, x, y, threshold) ==
  /\ call' = [fn |-> "getEdgeCoach", pair |-> pair, x |-> x, y |-> y,
              threshold |-> threshold,
              result |-> getEdgeCoach(pair, x, y, threshold)]
  /\ UNCHANGED <<appVars, exportVars>>

callDescriptor(label, value) ==
  /\ call' = [fn |-> "descriptor", label |-> label, value |-> value,
              result |-> descriptor(label, value)]
  /\ UNCHANGED <<appVars, exportVars>>

NextEngine ==
  \/ \E pair \in PairKey, x \in Rating, y \in Rating :
       callUseQuadrant(pair, x, y)
  \/ \E pair \in PairKey, x \in Rating, y \in Rating, t \in Threshold :
       callGetEdgeCoach(pair, x, y, t)
  \/ \E label \in Criterion, value \in Rating : callDescriptor(label, value)

SpecEngine ==
  Init /\ [][NextEngine]_vars

----------------------------------------------------------------------------
(* Properties of the classification engine and of the display. *)

QuadrantCodes ==
  {"HH", "HL", "LH", "LL"}

\* The catalog entries of one pair.
PairEntries(pair) ==
  {QuadrantLookup(pair \o "_" \o c) : c \in QuadrantCodes}

CatalogEntries ==
  {QUADRANTS[k] : k \in DOMAIN QUADRANTS}

\* The name of a quadrant result, "" when the result is undefined.
NameOf(q) ==
  IF q = UNDEFINED THEN "" ELSE q.name

\* C1: useQuadrant returns the result named "Uncertain" if and only if both
\* ratings are 3, for every pair; that result is the fixed boundary record
\* and no catalog entry carries its name.
C1_UncertainIffBoth3 ==
  /\ \A e \in CatalogEntries : e.name # "Uncertain"
  /\ call.fn = "useQuadrant" =>
       /\ NameOf(call.result) = "Uncertain" <=> (call.x = 3 /\ call.y = 3)
       /\ (call.x = 3 /\ call.y = 3) =>
            /\ call.result = UNCERTAIN
            /\ call.result \notin CatalogEntries

C1_Witness ==
  /\ call.fn = "useQuadrant"
  /\ call.pair = "SUCO"
  /\ call.x = 3
  /\ call.y = 3
  /\ call.result.name = "Uncertain"

\* C2: for ratings that are not both 3, useQuadrant returns one of the four
\* catalog entries of the pair, and two inputs of the same pair get the same
\* entry exactly when they agree on (x >= 4, y >= 4); (5, 5) on RAID gives
\* "Sweet Spot".
C2_EntryFromHighBits ==
  (call.fn = "useQuadrant" /\ ~(call.x = 3 /\ call.y = 3)) =>
    /\ Cardinality(PairEntries(call.pair)) = 4
    /\ call.result \in PairEntries(call.pair)
    /\ \A x2 \in Rating, y2 \in Rating :
         ~(x2 = 3 /\ y2 = 3) =>
           ( (useQuadrant(call.pair, x2, y2) = call.result)
             <=> ((x2 >= 4) = (call.x >= 4) /\ (y2 >= 4) = (call.y >= 4)) )
    /\ (call.pair = "RAID" /\ call.x = 5 /\ call.y = 5) =>
         call.result.name = "Sweet Spot"

C2_Witness ==
  /\ call.fn = "useQuadrant"
  /\ call.pair = "RAID"
  /\ call.x = 5
  /\ call.y = 5
  /\ call.result.name = "Sweet Spot"

\* The criteria as each pair's title names them: first and second.
FirstNamed ==
  [RAID |-> "Relevance", EFIM |-> "Effectiveness", SUCO |-> "Sustainability"]

SecondNamed ==
  [RAID |-> "Alignment", EFIM |-> "Impact", SUCO |-> "Coherence"]

\* For each pair: Y high and X low gives the _HL entry, Y low and X high the
\* _LH entry.
C3_MixedCodes ==
  [key \in PairKey |->
     \A x \in Rating, y \in Rating :
       /\ (y >= 4 /\ x < 4) =>
            useQuadrant(key, x, y) = QUADRANTS[key \o "_HL"]
       /\ (y < 4 /\ x >= 4) =>
            useQuadrant(key, x, y) = QUADRANTS[key \o "_LH"]]

\* C3: the lookup code is the pair code, the Y bit, then the X bit, where y
\* is the first-named criterion of the pair and x the second: a high first
\* rating with a low second rating shows the pair's HL entry, a low first
\* rating with a high second rating the LH entry (RAID: "Hidden Gems" and
\* "Box-Tickers").
C3_YBitFirst ==
  /\ \A key \in PairKey :
       /\ Pair(key).y = FirstNamed[key]
       /\ Pair(key).x = SecondNamed[key]
       /\ C3_MixedCodes[key]
       /\ (scores[FirstNamed[key]] >= 4 /\ scores[SecondNamed[key]] < 4) =>
            /\ SummaryCard(key).name = QUADRANTS[key \o "_HL"].name
            /\ Visible(key) =>
                 DetailPanel(key).name = QUADRANTS[key \o "_HL"].name
       /\ (scores[FirstNamed[key]] < 4 /\ scores[SecondNamed[key]] >= 4) =>
            /\ SummaryCard(key).name = QUADRANTS[key \o "_LH"].name
            /\ Visible(key) =>
                 DetailPanel(key).name = QUADRANTS[key \o "_LH"].name
  /\ QUADRANTS["RAID_HL"].name = "Hidden Gems"
  /\ QUADRANTS["RAID_LH"].name = "Box-Tickers"
  /\ (scores["Relevance"] >= 4 /\ scores["Alignment"] < 4) =>
       SummaryCard("RAID").name = "Hidden Gems"
  /\ (scores["Relevance"] < 4 /\ scores["Alignment"] >= 4) =>
       SummaryCard("RAID").name = "Box-Tickers"

C3_Witness ==
  /\ scores["Relevance"] = 5
  /\ scores["Alignment"] = 2
  /\ pairKey = "RAID"
  /\ DetailPanel("RAID").name = "Hidden Gems"
  /\ SummaryCard("RAID").name = "Hidden Gems"

\* useQuadrant returns a (name, description) record for every pair and
\* all ratings.
C4_EveryInputClassified ==
  \A key \in PairKey, x \in Rating, y \in Rating :
    /\ useQuadrant(key, x, y) # UNDEFINED
    /\ DOMAIN useQuadrant(key, x, y) = {"name", "desc"}

\* C4: the catalog has exactly the 12 keys pair_HH, pair_HL, pair_LH,
\* pair_LL, so useQuadrant returns a (name, description) record for all
\* ratings of every pair, and no lookup made for the current ratings is
\* undefined.
C4_CatalogComplete ==
  /\ DOMAIN QUADRANTS = {key \o "_" \o c : key \in PairKey, c \in QuadrantCodes}
  /\ Cardinality(DOMAIN QUADRANTS) = 12
  /\ C4_EveryInputClassified
  /\ quad # UNDEFINED
  /\ \A key \in PairKey :
       useQuadrant(key, scores[Pair(key).x], scores[Pair(key).y]) # UNDEFINED

C4_Witness ==
  /\ pairKey = "SUCO"
  /\ scores["Coherence"] = 4
  /\ scores["Sustainability"] = 2
  /\ quad = QUADRANTS["SUCO_LH"]

\* C5: with threshold 4 getEdgeCoach applies three rules, first match wins:
\* y = 3 and x >= 4 gives y3_x4plus; else y >= 4 and x = 3 gives y4plus_x3;
\* else x = 3 and y = 3 gives y3_x3; else the result is absent.  It is absent
\* when neither rating is 3 and when one is 3 and the other 1 or 2.
C5_EdgeCoachRules ==
  (call.fn = "getEdgeCoach" /\ call.threshold = 4) =>
    LET coach == MID_EDGE_COACH[call.pair]
        x == call.x
        y == call.y
    IN  /\ call.result =
             IF y = 3 /\ x >= 4 THEN coach.y3_x4plus
             ELSE IF y >= 4 /\ x = 3 THEN coach.y4plus_x3
             ELSE IF x = 3 /\ y = 3 THEN coach.y3_x3
             ELSE NULL
        /\ (x # 3 /\ y # 3) => call.result = NULL
        /\ (x = 3 /\ y \in {1, 2}) => call.result = NULL
        /\ (y = 3 /\ x \in {1, 2}) => call.result = NULL
        /\ (call.pair = "RAID" /\ y = 3 /\ x = 5) =>
             call.result = "Good on paper; strengthen classroom fit with quick adaptations, exemplars, and teacher feedback loops."

C5_Witness ==
  /\ call.fn = "getEdgeCoach"
  /\ call.threshold = 4
  /\ call.pair = "RAID"
  /\ call.y = 3
  /\ call.x = 5
  /\ call.result = MID_EDGE_COACH["RAID"].y3_x4plus

\* The texts shown for a pair: its summary card, and its detail panel when
\* its tab is the active one.
ShownTexts(key) ==
  {SummaryCard(key).text}
    \cup (IF Visible(key) THEN {DetailPanel(key).text} ELSE {})

\* C6: for every pair the description shown (detail panel and summary card)
\* is the edge coaching advisory when one is present for the current
\* ratings, and the quadrant description exactly when it is absent.
C6_CoachReplacesDescription ==
  \A key \in PairKey :
    LET x == scores[SecondNamed[key]]
        y == scores[FirstNamed[key]]
        coach == getEdgeCoach(key, x, y, 4)
        present == \/ y = 3 /\ x >= 4
                   \/ y >= 4 /\ x = 3
                   \/ y = 3 /\ x = 3
        q == useQuadrant(key, x, y)
    IN  /\ present <=> coach # NULL
        /\ \A t \in ShownTexts(key) :
             /\ present => (t = coach /\ t # q.desc)
             /\ ~present => t = q.desc

C6_Witness ==
  /\ pairKey = "EFIM"
  /\ scores["Impact"] = 5
  /\ scores["Effectiveness"] = 3
  /\ DetailPanel("EFIM").text = MID_EDGE_COACH["EFIM"].y3_x4plus
  /\ scores["Relevance"] = 2
  /\ SummaryCard("RAID").text = QUADRANTS["RAID_LL"].desc

\* The Evidence Gate indicators of a pair: the badge of the summary card,
\* the ring of its plot, and badge and ring of the detail panel when shown.
ShownGates(key) ==
  {SummaryCard(key).gate, SummaryCard(key).ring}
    \cup (IF Visible(key)
          THEN {DetailPanel(key).gate, DetailPanel(key).ring}
          ELSE {})

\* C7: for every pair the Evidence Gate indicator is active if and only if
\* the pair's current x rating is 3 or its current y rating is 3.
C7_GateIffARatingIs3 ==
  \A key \in PairKey :
    \A g \in ShownGates(key) :
      g <=> (scores[SecondNamed[key]] = 3 \/ scores[FirstNamed[key]] = 3)

C7_Witness ==
  /\ pairKey = "RAID"
  /\ scores["Relevance"] = 3
  /\ scores["Alignment"] = 5
  /\ Len(resources) = 1
  /\ resources[1].scores["Relevance"] = 1
  /\ ShownGates("RAID") = {TRUE}

\* C8: the descriptor SliderRow shows is a non-empty string for every
\* criterion and rating; for rating 3 it is the criterion's MID_AXIS_TEXT,
\* which differs from the descriptors of ratings 1, 2, 4, 5 and from the
\* tier-3 text of SCALE.
C8_ModerateDescriptor ==
  call.fn = "descriptor" =>
    /\ call.result # ""
    /\ call.result # NULL
    /\ call.value = 3 =>
         /\ call.result = MID_AXIS_TEXT[call.label]
         /\ call.result # SCALE[call.label][3]
         /\ \A r \in Rating \ {3} :
              descriptor(call.label, r) # call.result

C8_Witness ==
  /\ call.fn = "descriptor"
  /\ call.label = "Sustainability"
  /\ call.value = 3
  /\ call.result =
       "Continues with active effort or specific people; not yet embedded or budget-proof."

----------------------------------------------------------------------------
(* Properties of the resource collection store. *)

\* C9: after any sequence of saves and deletes the identifiers of the
\* entries of the collection are pairwise distinct, with the random-id
\* generator and with the String(Date.now()) fallback.
C9_DistinctIds ==
  \A i \in DOMAIN resources, j \in DOMAIN resources :
    i # j => resources[i].id # resources[j].id

\* C10: a save appends exactly one entry at the end and leaves the earlier
\* entries and their order unchanged; the entry's name is the trimmed
\* pending name, or "Resource n" with n = (length before the save) + 1 when
\* the pending name is empty or only whitespace.
C10_SaveAppendsNamedEntry ==
  [][ nSaves' = nSaves + 1 =>
        LET n == Len(resources)
            entry == resources'[n + 1]
            blank == \A i \in DOMAIN resourceName : resourceName[i] = " "
        IN  /\ Len(resources') = n + 1
            /\ SubSeq(resources', 1, n) = resources
            /\ entry.scores = scores
            /\ blank => entry.name = "Resource " \o String(n + 1)
            /\ ~blank => entry.name = Text(trim(resourceName))
            /\ (blank /\ n = 1) => entry.name = "Resource 2"
            /\ resourceName = <<" ", "a", " ">> => entry.name = "a"
            /\ resourceName = <<"a", " ", "a">> => entry.name = "a a"
    ]_vars

C10_Witness ==
  /\ Len(resources) = 2
  /\ resources[1].name = "a a"
  /\ resources[2].name = "Resource 2"
  /\ resourceName = <<>>

\* A step that changes the collection or the store within one session.
StoreStep ==
  /\ session' = session
  /\ (resources' # resources \/ localStorage' # localStorage)

\* C11: after every completed save or delete the value stored under the
\* persistence key is the serialization of the whole collection as it is
\* after the operation, so that what is persisted equals what is in memory;
\* the store never holds anything else than the previous or the new
\* collection.
C11_StoreHoldsWholeCollection ==
  [][ StoreStep =>
        /\ localStorage' =
             setItem(localStorage, StorageKey, JSONstringify(resources'))
        /\ loadResources(localStorage') = resources'
    ]_vars

C11_Witness ==
  /\ nSaves = 2
  /\ Len(resources) = 1
  /\ resources[1].name = "Resource 2"
  /\ localStorage[StorageKey] = JSONstringify(resources)
  /\ loadResources(localStorage) = resources

\* The sequence without its i-th element.
RemoveAt(seq, i) ==
  SubSeq(seq, 1, i - 1) \o SubSeq(seq, i + 1, Len(seq))

\* A step of deleteResource: the only one that shortens the collection.
DeleteStep ==
  /\ session' = session
  /\ Len(resources') < Len(resources)

\* C12: delete(id) removes the entry whose identifier is id and leaves every
\* other entry and the order of the others unchanged; with an identifier no
\* entry has, the collection is unchanged.
C12_DeleteRemovesOneEntry ==
  [][ /\ DeleteStep =>
           \E i \in DOMAIN resources : resources' = RemoveAt(resources, i)
      /\ RemoveById(resources, "no such id") = resources
    ]_vars

\* The texts of InitialStores that are not JSON.
CorruptTexts ==
  {"not json",
   "[{\"id\":\"7\",\"na",
   "[{\"id\":\"7\",\"name\":\"old\",\"scores\":{}},]"}

\* C13: when the persistence key is missing or its text is not JSON, load
\* returns the empty collection and raises nothing: the application starts,
\* and restarts, with zero saved resources until the first save.
C13_LoadRecoversEmpty ==
  ( \/ StorageKey \notin DOMAIN localStorage
    \/ localStorage[StorageKey] \in CorruptTexts )
  => /\ resources = <<>>
     /\ loadResources(localStorage) = <<>>

C13_Witness ==
  /\ session = 2
  /\ StorageKey \in DOMAIN localStorage
  /\ localStorage[StorageKey] = "[{\"id\":\"7\",\"na"
  /\ resources = <<>>

\* C14: a save followed by a restart and load returns a collection with the
\* saved entry (identical id, name and scores) after all earlier entries in
\* their order: every reload yields the collection that was in memory.
C14_RoundTrip ==
  [][ session' = session + 1 =>
        /\ resources' = resources
        /\ \A i \in DOMAIN resources :
             /\ resources'[i].id = resources[i].id
             /\ resources'[i].name = resources[i].name
             /\ \A c \in Criterion :
                  resources'[i].scores[c] = resources[i].scores[c]
    ]_vars

C14_Witness ==
  /\ session = 2
  /\ Len(resources) = 2
  /\ resources[1].name = "Resource 1"
  /\ resources[1].scores[Pair("RAID").x] = 5
  /\ resources[2].name = "Resource 2"
  /\ scores[Pair("RAID").x] = 3

\* C15: a change of a live rating or of the pending name leaves the saved
\* collection and the stored text unchanged.
C15_EditsLeaveSavedEntries ==
  [][ ( /\ session' = session
        /\ nSaves' = nSaves
        /\ (scores' # scores \/ resourceName' # resourceName) )
      => /\ resources' = resources
         /\ localStorage' = localStorage
    ]_vars

C15_Witness ==
  /\ Len(resources) = 1
  /\ resources[1].scores["Relevance"] = 5
  /\ scores["Relevance"] = 1
  /\ resourceName = <<"a">>
  /\ localStorage[StorageKey] = JSONstringify(resources)

\* The point pos lies in the plot rectangle of a grid.
InPlot(compact, pos) ==
  /\ padding <= pos.cx /\ pos.cx <= padding + plotW(compact)
  /\ padding <= pos.cy /\ pos.cy <= padding + plotH(compact)

\* toPos on all ratings: the two corners, cx strictly increasing with x and
\* cy strictly decreasing with y.
C16_CornersAndOrder ==
  \A compact \in BOOLEAN :
    /\ toPos(compact, 1, 1)
         = [cx |-> padding, cy |-> padding + plotH(compact)]
    /\ toPos(compact, 5, 5)
         = [cx |-> padding + plotW(compact), cy |-> padding]
    /\ \A a \in 1..4, c \in Rating :
         /\ toPos(compact, a, c).cx < toPos(compact, a + 1, c).cx
         /\ toPos(compact, c, a).cy > toPos(compact, c, a + 1).cy

\* Every circle of every grid is placed by toPos at its ratings, inside the
\* plot; a saved point with the live ratings lies on the live point.
C16_DrawnPoints ==
  \A key \in PairKey, compact \in BOOLEAN :
    \A p \in {Pair(key)}, g \in {Grid(key, compact)} :
        /\ 4 * (g.live.cx - padding) = (scores[p.x] - 1) * plotW(compact)
        /\ 4 * (padding + plotH(compact) - g.live.cy)
             = (scores[p.y] - 1) * plotH(compact)
        /\ InPlot(compact, g.live)
        /\ DOMAIN g.points = DOMAIN resources
        /\ \A i \in DOMAIN resources :
             /\ g.points[i] = toPos(compact, resources[i].scores[p.x],
                                    resources[i].scores[p.y])
             /\ InPlot(compact, g.points[i])
             /\ ( /\ resources[i].scores[p.x] = scores[p.x]
                  /\ resources[i].scores[p.y] = scores[p.y] )
                => g.points[i] = g.live

\* C16: toPos gives cx = padding + ((x - 1) / 4) * plotW and
\* cy = padding + (1 - (y - 1) / 4) * plotH for the live point and for every
\* saved point; every drawn point lies in the plot rectangle, (1,1) is the
\* bottom-left and (5,5) the top-right corner, cx strictly increases with x
\* and cy strictly decreases with y, and a saved point with the live
\* ratings is drawn on the live point.
C16_ToPosition ==
  /\ C16_CornersAndOrder
  /\ C16_DrawnPoints

C16_Witness ==
  /\ Len(resources) = 1
  /\ scores[Pair("RAID").x] = 5
  /\ resources[1].scores[Pair("RAID").x] = 5
  /\ Grid("RAID", FALSE).live = [cx |-> 276, cy |-> 150]
  /\ Grid("RAID", FALSE).points[1] = [cx |-> 276, cy |-> 150]
  /\ Grid("RAID", TRUE).points[1] = [cx |-> 196, cy |-> 110]

\* C17: initially all six ratings are 3; in every reachable state every
\* rating is an integer from 1 to 5; in the initial state every pair is
\* classified Uncertain and shows the Evidence Gate.
C17_RatingsInRange ==
  /\ scores \in [Criterion -> 1..5]
  /\ (session = 1 /\ events = 0) =>
       /\ \A c \in Criterion : scores[c] = 3
       /\ \A key \in PairKey :
            /\ SummaryCard(key).name = "Uncertain"
            /\ SummaryCard(key).gate
            /\ SummaryCard(key).ring
       /\ DetailPanel(pairKey).name = "Uncertain"
       /\ DetailPanel(pairKey).gate

C17_Witness ==
  /\ pairKey = "SUCO"
  /\ scores[Pair("SUCO").x] = 1
  /\ scores[Pair("SUCO").y] = 5
  /\ \A c \in Criterion \ {Pair("SUCO").x, Pair("SUCO").y} : scores[c] = 3

\* C18: for every pair and all ratings x, y in 1..5, the threshold-3
\* revision and the threshold-4 revision with the Uncertain case return the
\* same quadrant name if and only if neither x nor y is 3.
C18_RevisionsAgreeOffThree ==
  call.fn = "useQuadrant" =>
    LET early == useQuadrantThreshold3(call.pair, call.x, call.y)
    IN  /\ early # UNDEFINED
        /\ call.result # UNDEFINED
        /\ (call.result.name = early.name)
             <=> (call.x # 3 /\ call.y # 3)

C18_Witness ==
  /\ call.fn = "useQuadrant"
  /\ call.x = 3
  /\ call.y = 5
  /\ call.result = QUADRANTS[call.pair \o "_HL"]
  /\ useQuadrantThreshold3(call.pair, call.x, call.y)
       = QUADRANTS[call.pair \o "_HH"]

----------------------------------------------------------------------------
(* Properties of the export. *)

\* The usable height of a page.
UsableHeight ==
  pageHeight - Points(40)

\* The least n with n * d >= h.
CeilDiv(h, d) ==
  (h + d - 1) \div d

\* The first image row shown in the usable area of a page that draws the
\* image at offset y.
SliceStart(y) ==
  Points(20) - y

\* C19: with H = pageHeight - 40 and image height h the saved document has
\* ceil(h / H) pages, page k (k = 0, 1, ...) draws the image at offset
\* 20 - k * H, no slice is shown on two pages, and the slices cover the
\* whole image.
C19_PagesShowSuccessiveSlices ==
  pdf.pc = "saved" =>
    LET H == UsableHeight
        h == pdf.imgHeight
        n == Len(pdf.pages)
    IN  /\ n = CeilDiv(h, H)
        /\ \A k \in 0..(n - 1) : pdf.pages[k + 1] = Points(20) - k * H
        /\ \A j \in 1..n, k \in 1..n :
             j # k => SliceStart(pdf.pages[j]) # SliceStart(pdf.pages[k])
        /\ \E k \in 1..n :
             /\ SliceStart(pdf.pages[k]) <= 0
             /\ 0 < SliceStart(pdf.pages[k]) + H
        /\ \A k \in 1..n :
             \/ SliceStart(pdf.pages[k]) + H >= h
             \/ \E j \in 1..n :
                  /\ SliceStart(pdf.pages[j]) <= SliceStart(pdf.pages[k]) + H
                  /\ SliceStart(pdf.pages[k]) + H
                       < SliceStart(pdf.pages[j]) + H

\* The export e has finished and no other export was started.
SingleExportFinished(e) ==
  /\ exports[e].pc \in {"done", "failed", "threw"}
  /\ \A o \in Export \ {e} : exports[o].pc = "idle"

\* C20: for a single export, PNG or PDF, the print-safe marker is absent
\* once the export has finished, whether it succeeded or rasterization or
\* document generation failed; it is present while the export runs.
C20_MarkerRemoved ==
  \A e \in Export :
    /\ SingleExportFinished(e) => ~printSafe
    /\ ( /\ exports[e].pc \in {"frame", "html2canvas"}
         /\ \A o \in Export \ {e} : exports[o].pc = "idle" ) => printSafe

C20_Witness ==
  /\ exports[1] = [pc |-> "failed", type |-> "pdf"]
  /\ exports[2].pc = "idle"
  /\ ~printSafe

\* C21: with overlapping exports the print-safe marker is present during
\* the whole rasterization of each export, from the start of its
\* html2canvas call until that call settles, and absent once all started
\* exports have finished.
C21_MarkerDuringRasterization ==
  /\ \A e \in Export : exports[e].pc = "html2canvas" => printSafe
  /\ ( /\ \E e \in Export : exports[e].pc # "idle"
       /\ \A e \in Export : exports[e].pc \in {"idle", "done", "failed", "threw"} )
     => ~printSafe

\* A step of one session that leaves the store as it was: an edit, or a
\* save or delete whose store write raised.
NoWriteStep ==
  /\ session' = session
  /\ localStorage' = localStorage

\* C22: when the store write raises during save or delete, the in-memory
\* collection is left as it was before the operation, so that the in-memory
\* and the persisted collection still agree.
C22_FailedWriteLeavesCollection ==
  [][ NoWriteStep =>
        /\ resources' = resources
        /\ loadResources(localStorage') = resources'
    ]_vars

\* The JSON tree is a number in 1..5.
IsRating(tree) ==
  /\ tree.t = "number"
  /\ tree.n \in 1..5

\* The JSON tree is a record with an id, a name and scores on all six
\* criteria, each in 1..5.
IsSavedResource(tree) ==
  /\ tree.t = "object"
  /\ HasKey(tree, "id") /\ Member(tree, "id").t = "string"
  /\ HasKey(tree, "name") /\ Member(tree, "name").t = "string"
  /\ HasKey(tree, "scores") /\ Member(tree, "scores").t = "object"
  /\ \A c \in Criterion :
       /\ HasKey(Member(tree, "scores"), c)
       /\ IsRating(Member(Member(tree, "scores"), c))

\* C23: whatever text is stored under the persistence key at the start, in
\* every reachable state the in-memory collection is a finite sequence of
\* records with an id, a name and scores on all six criteria, each in 1..5.
\* The collection is the JavaScript value of the tree the store holds.
C23_CollectionWellFormed ==
  /\ resources = JSValue(LoadedTree(localStorage))
  /\ LoadedTree(localStorage).t = "array"
  /\ \A i \in DOMAIN LoadedTree(localStorage).items :
       IsSavedResource(LoadedTree(localStorage).items[i])

----------------------------------------------------------------------------
(* Further properties of the engine and of the generated names. *)

\* For every pair the both-3 input is classified Uncertain and, with
\* threshold 4, coached with the pair's y3_x3 advisory.
C24_Both3Coached ==
  \A key \in PairKey :
    /\ useQuadrant(key, 3, 3).name = "Uncertain"
    /\ \A x \in Rating, y \in Rating :
         useQuadrant(key, x, y).name = "Uncertain" =>
           getEdgeCoach(key, x, y, 4) = MID_EDGE_COACH[key].y3_x3
    /\ MID_EDGE_COACH[key].y3_x3 # UNCERTAIN.desc

\* C24: whenever a pair is classified "Uncertain", edge coaching with
\* threshold 4 is present and is the pair's y3_x3 advisory; the text shown
\* next to the name "Uncertain" is that advisory and the fixed description
\* of "Uncertain" is never shown.
C24_UncertainShowsAdvisory ==
  /\ C24_Both3Coached
  /\ \A key \in PairKey :
       /\ SummaryCard(key).name = "Uncertain" =>
            SummaryCard(key).text = MID_EDGE_COACH[key].y3_x3
       /\ (Visible(key) /\ DetailPanel(key).name = "Uncertain") =>
            DetailPanel(key).text = MID_EDGE_COACH[key].y3_x3
       /\ \A t \in ShownTexts(key) : t # UNCERTAIN.desc

C24_Witness ==
  /\ pairKey = "SUCO"
  /\ events > 0
  /\ DetailPanel("SUCO").name = "Uncertain"
  /\ DetailPanel("SUCO").text = MID_EDGE_COACH["SUCO"].y3_x3
  /\ SummaryCard("SUCO").text = MID_EDGE_COACH["SUCO"].y3_x3
  /\ SummaryCard("RAID").name # "Uncertain"

\* The names saveCurrentResource can generate in one run.
GeneratedNames ==
  {"Resource " \o String(n) : n \in 1..(MaxEvents + 1)}

\* The entries with a generated name have pairwise distinct names.
GeneratedNamesDistinct ==
  \A i \in DOMAIN resources, j \in DOMAIN resources :
    (i # j /\ resources[i].name \in GeneratedNames)
      => resources[i].name # resources[j].name

\* C25 as stated: after any sequence of saves with a blank name and deletes
\* the generated names "Resource n" in the collection are pairwise
\* distinct.
C25_DefaultNamesDistinct ==
  GeneratedNamesDistinct

\* C25 amended: as long as no entry has been deleted (every save of the run
\* is still in the collection), the generated names are pairwise distinct,
\* the entry at position n being named "Resource n".
C25_DistinctWithoutDeletes ==
  Len(resources) = nSaves =>
    /\ GeneratedNamesDistinct
    /\ \A i \in DOMAIN resources :
         resources[i].name \in GeneratedNames =>
           resources[i].name = "Resource " \o String(i)

C25_Witness ==
  /\ nSaves = 3
  /\ Len(resources) = 3
  /\ resources[1].name = "a"
  /\ resources[2].name = "Resource 2"
  /\ resources[3].name = "Resource 3"

\* C26 as stated: for every pair and every threshold in 1..5,
\* getEdgeCoach(pair, 3, 3, threshold) is the pair's y3_x3 advisory.
C26_Both3AnyThreshold ==
  (call.fn = "getEdgeCoach" /\ call.x = 3 /\ call.y = 3) =>
    call.result = MID_EDGE_COACH[call.pair].y3_x3

\* C26 amended: getEdgeCoach(pair, 3, 3, threshold) is the pair's y3_x3
\* advisory for the thresholds 4 and 5; for the thresholds 1, 2 and 3 a
\* rating of 3 counts as high, the first rule matches and the result is
\* the y3_x4plus advisory, a different text.
C26_Both3AboveThree ==
  (call.fn = "getEdgeCoach" /\ call.x = 3 /\ call.y = 3) =>
    /\ call.threshold > 3 =>
         call.result = MID_EDGE_COACH[call.pair].y3_x3
    /\ call.threshold <= 3 =>
         /\ call.result = MID_EDGE_COACH[call.pair].y3_x4plus
         /\ call.result # MID_EDGE_COACH[call.pair].y3_x3

C26_Witness ==
  /\ call.fn = "getEdgeCoach"
  /\ call.pair = "EFIM"
  /\ call.x = 3
  /\ call.y = 3
  /\ call.threshold = 3
  /\ call.result = MID_EDGE_COACH["EFIM"].y3_x4plus

====
